---- MODULE Spec2Model ----
(***************************************************************************)
(* Model of the SIRIUS filter generator (src/python/filter/generators.py,  *)
(* src/python/filter/cli.py).                                              *)
(*                                                                         *)
(* Numbers.  A numpy float is modelled as a pair <<n, d>>: for d > 0 the   *)
(* rational n/d in lowest terms (exact arithmetic, no rounding), and for   *)
(* d = 0 one of the IEEE specials: <<1,0>> is +inf, <<-1,0>> is -inf and   *)
(* <<0,0>> is nan.  Division of numpy values by zero therefore yields inf  *)
(* or nan as numpy does, while a division of Python floats by zero raises  *)
(* ZeroDivisionError (see generate_gaussian_2d).                           *)
(*                                                                         *)
(* Arrays.  A 1D array is a sequence of numbers, a 2D array a sequence of  *)
(* rows.  Python index i is TLA+ index i + 1.  Arrays that are allocated   *)
(* by the operations live in heap and are named by their reference, the    *)
(* index into heap; 0 is None.                                             *)
(***************************************************************************)
EXTENDS Integers, Sequences, FiniteSets, TLC

\* ---------------------------------------------------------------- bounds
\* Largest width and samples_per_unit given on the command line.
MaxWidth == 4
MaxSpu == 2
\* Largest Lanczos kernel_size given on the command line.
MaxKernelSize == 2
\* Arguments range down to -MaxNeg, so that the non-positive ones are drawn too.
MaxNeg == 1
\* Directly supplied 1D profiles: at most MaxLen entries, each in -MaxVal..MaxVal.
MaxLen == 3
MaxVal == 1
\* Largest oversampling handed directly to normalize_filter.
MaxPhases == 3

\* ------------------------------------------------------------ arithmetic
Abs(n) == IF n < 0 THEN 0 - n ELSE n

Sign(n) == IF n < 0 THEN 0 - 1 ELSE IF n > 0 THEN 1 ELSE 0

RECURSIVE Gcd(_, _)
Gcd(a, b) == IF b = 0 THEN a ELSE Gcd(b, a % b)

\* The number n/d in its canonical form.
Norm(n, d) ==
    IF d = 0 THEN <<Sign(n), 0>>
    ELSE LET g == Gcd(Abs(n), Abs(d))
             s == Sign(d)
         IN  <<(s * n) \div g, (s * d) \div g>>

Q(n) == <<n, 1>>

Zero == Q(0)

One == Q(1)

NaN == <<0, 0>>

IsNaN(x) == x = NaN

IsFinite(x) == x[2] # 0

Neg(x) == <<0 - x[1], x[2]>>

AbsQ(x) == <<Abs(x[1]), x[2]>>

\* IEEE product: inf * 0 is nan, and nan is absorbing.
Mul(x, y) ==
    IF x[2] = 0 \/ y[2] = 0 THEN <<Sign(x[1] * y[1]), 0>>
    ELSE LET g1 == Gcd(Abs(x[1]), y[2])
             g2 == Gcd(Abs(y[1]), x[2])
         IN  <<(x[1] \div g1) * (y[1] \div g2), (x[2] \div g2) * (y[2] \div g1)>>

\* IEEE quotient of numpy values: x/0 is +-inf, 0/0 and inf/inf are nan, x/inf is 0.
Div(x, y) ==
    IF y[2] = 0 THEN (IF x[2] = 0 THEN NaN ELSE Zero)
    ELSE IF y[1] = 0 THEN <<Sign(x[1]), 0>>
    ELSE IF x[2] = 0 THEN <<x[1] * Sign(y[1]), 0>>
    ELSE Mul(x, <<Sign(y[1]) * y[2], Abs(y[1])>>)

\* IEEE sum: inf + -inf is nan.
Add(x, y) ==
    IF x[2] = 0 /\ y[2] = 0 THEN (IF x = y THEN x ELSE NaN)
    ELSE IF x[2] = 0 THEN x
    ELSE IF y[2] = 0 THEN y
    ELSE LET g == Gcd(x[2], y[2])
             l == (x[2] \div g) * y[2]
         IN  Norm(x[1] * (l \div x[2]) + y[1] * (l \div y[2]), l)

Sub(x, y) == Add(x, Neg(y))

\* Comparisons: every comparison with nan is false.
Less(x, y) ==
    IF IsNaN(x) \/ IsNaN(y) THEN FALSE
    ELSE IF x[2] = 0 /\ y[2] = 0 THEN x[1] < y[1]
    ELSE x[1] * y[2] < y[1] * x[2]

LessEq(x, y) ==
    IF IsNaN(x) \/ IsNaN(y) THEN FALSE
    ELSE IF x[2] = 0 /\ y[2] = 0 THEN x[1] <= y[1]
    ELSE x[1] * y[2] <= y[1] * x[2]

\* Largest integer not above the finite number x.
Floor(x) == x[1] \div x[2]

\* ------------------------------------------------------- numpy functions
\* Python index range of an array of n entries.
Idx(n) == 0 .. (n - 1)

\* np.linspace(start, stop, num): num evenly spaced numbers, both ends included;
\* a negative num raises ValueError, num = 1 gives <<start>>.
Linspace(start, stop, num) ==
    IF num < 0 THEN [err |-> "ValueError", val |-> <<>>]
    ELSE IF num = 0 THEN [err |-> "none", val |-> <<>>]
    ELSE IF num = 1 THEN [err |-> "none", val |-> <<start>>]
    ELSE LET step == Div(Sub(stop, start), Q(num - 1))
         IN  [err |-> "none",
              val |-> [k \in 1 .. num |->
                          IF k = num THEN stop
                          ELSE Add(Mul(Q(k - 1), step), start)]]

\* The constant np.pi, as the rational 22/7.
PiQ == <<22, 7>>

\* 2^(-k) for a natural k.
RECURSIVE HalfPow(_)
HalfPow(k) == IF k = 0 THEN One ELSE Mul(<<1, 2>>, HalfPow(k - 1))

\* np.sinc at a finite x > 0, x = k + t with 0 <= t < 1.  The library function
\* sin(pi x) / (pi x) is irrational off the integers; it is modelled by a rational
\* function with the same zeros (the non-zero integers), the same lobe signs and
\* a decaying envelope: 1 - t^2 on the main lobe, and (-1)^k t (1 - t) / 2^(k-1)
\* on lobe k >= 1.
SincLobe(x) ==
    LET k == Floor(x)
        t == Sub(x, Q(k))
        lobe == Mul(Mul(t, Sub(One, t)), HalfPow(k - 1))
    IN  IF k = 0 THEN Sub(One, Mul(t, t))
        ELSE IF k % 2 = 0 THEN lobe ELSE Neg(lobe)

\* np.sinc(x): 1 at x = 0, even in x, nan at inf and nan.
NpSinc(x) ==
    IF ~IsFinite(x) THEN NaN
    ELSE IF x = Zero THEN One
    ELSE SincLobe(AbsQ(x))

\* np.exp(z) for z <= 0, as 2^(3z/2) with 2^(-y) interpolated linearly between
\* the integers: positive, decreasing in -z, and 1 at z = 0.
ExpNeg(y) ==
    LET w == Mul(<<3, 2>>, y)
        k == Floor(w)
        f == Sub(w, Q(k))
    IN  Mul(HalfPow(k), Sub(One, Mul(<<1, 2>>, f)))

NpExp(z) ==
    IF IsNaN(z) THEN NaN
    ELSE IF ~IsFinite(z) THEN (IF z[1] < 0 THEN Zero ELSE z)
    ELSE IF LessEq(z, Zero) THEN ExpNeg(Neg(z))
    ELSE Div(One, ExpNeg(z))

\* np.sum over a sequence of numbers, then over the rows of a 2D array.
RECURSIVE SumSeq(_)
SumSeq(s) == IF Len(s) = 0 THEN Zero ELSE Add(SumSeq(SubSeq(s, 1, Len(s) - 1)), s[Len(s)])

RECURSIVE SumRows(_)
SumRows(m) == IF Len(m) = 0 THEN Zero ELSE Add(SumRows(SubSeq(m, 1, Len(m) - 1)), SumSeq(m[Len(m)]))

\* ------------------------------------------------------------ generators
\* Mutant of GenerateX: the closing sample is forgotten (no + 1).
GenerateXNoEndpoint(width, samples_per_unit) ==
    Linspace(Norm(0 - width, 2), Norm(width, 2), width * samples_per_unit)

\* _generate_x(width, samples_per_unit)
GenerateX(width, samples_per_unit) ==
    LET samples_count == width * samples_per_unit + 1
        start == Norm(0 - width, 2)
        stop == Norm(width, 2)
    IN  Linspace(start, stop, samples_count)

\* Mutant of Create2dSeparableFunc: the row index is used for both factors.
Create2dSameIndex(func_1d) ==
    [p_x \in 1 .. Len(func_1d) |->
        [p_y \in 1 .. Len(func_1d) |-> Mul(func_1d[p_x], func_1d[p_x])]]

\* _create_2d_separable_func(func_1d): the fresh 2D array it returns.
Create2dSeparableFunc(func_1d) ==
    [p_x \in 1 .. Len(func_1d) |->
        [p_y \in 1 .. Len(func_1d) |-> Mul(func_1d[p_x], func_1d[p_y])]]

\* Mutant of RectLanczos: the lower bound -a < x is forgotten.
RectLanczosOneSided(xi, a) == IF Less(xi, Q(a)) THEN One ELSE Zero

\* rect_lanczos at one coordinate: np.where((-a < x) * (x < a)) selects it.
RectLanczos(xi, a) == IF Less(Q(0 - a), xi) /\ Less(xi, Q(a)) THEN One ELSE Zero

\* One entry of generate_lanczos_1d: sincx * sincx_a * rect_lanczos.
LanczosAt(xi, a) == Mul(Mul(NpSinc(xi), NpSinc(Div(xi, Q(a)))), RectLanczos(xi, a))

\* generate_lanczos_1d(width, samples_per_unit, a)
GenerateLanczos1d(width, samples_per_unit, a) ==
    LET x == GenerateX(width, samples_per_unit)
    IN  IF x.err # "none" THEN x
        ELSE [err |-> "none", val |-> [k \in 1 .. Len(x.val) |-> LanczosAt(x.val[k], a)]]

\* The two formula branches of generate_bicubic_1d, at abs_xi.
BicubicInner(a, abs_xi) ==
    Add(Sub(Mul(Mul(Mul(Add(a, Q(2)), abs_xi), abs_xi), abs_xi),
            Mul(Mul(Add(a, Q(3)), abs_xi), abs_xi)),
        One)

\* Mutant of BicubicOuter: the linear coefficient is 6a instead of 8a.
BicubicOuterBadCoeff(a, abs_xi) ==
    Sub(Add(Sub(Mul(Mul(Mul(a, abs_xi), abs_xi), abs_xi),
                Mul(Mul(Mul(Q(5), a), abs_xi), abs_xi)),
            Mul(Mul(Q(6), a), abs_xi)),
        Mul(Q(4), a))

BicubicOuter(a, abs_xi) ==
    Sub(Add(Sub(Mul(Mul(Mul(a, abs_xi), abs_xi), abs_xi),
                Mul(Mul(Mul(Q(5), a), abs_xi), abs_xi)),
            Mul(Mul(Q(8), a), abs_xi)),
        Mul(Q(4), a))

\* One entry of generate_bicubic_1d.
BicubicAt(xi, a) ==
    LET abs_xi == AbsQ(xi)
    IN  IF LessEq(abs_xi, One) THEN BicubicInner(a, abs_xi)
        ELSE IF Less(One, abs_xi) /\ LessEq(abs_xi, Q(2)) THEN BicubicOuter(a, abs_xi)
        ELSE Zero

\* generate_bicubic_1d(width, samples_per_unit, a)
GenerateBicubic1d(width, samples_per_unit, a) ==
    LET x == GenerateX(width, samples_per_unit)
    IN  IF x.err # "none" THEN x
        ELSE [err |-> "none", val |-> [k \in 1 .. Len(x.val) |-> BicubicAt(x.val[k], a)]]

\* The two formula branches of generate_cubicbspline_1d, at abs_xi.
CubicBSplineInner(abs_xi) ==
    Add(Sub(<<2, 3>>, Mul(abs_xi, abs_xi)),
        Div(Mul(Mul(abs_xi, abs_xi), abs_xi), Q(2)))

CubicBSplineOuter(abs_xi) ==
    Div(Sub(Q(2), Mul(Mul(abs_xi, abs_xi), abs_xi)), Q(6))

\* One entry of generate_cubicbspline_1d.
CubicBSplineAt(xi) ==
    LET abs_xi == AbsQ(xi)
    IN  IF LessEq(Zero, abs_xi) /\ Less(abs_xi, One) THEN CubicBSplineInner(abs_xi)
        ELSE IF LessEq(One, abs_xi) /\ Less(abs_xi, Q(2)) THEN CubicBSplineOuter(abs_xi)
        ELSE Zero

\* generate_cubicbspline_1d(width, samples_per_unit)
GenerateCubicBSpline1d(width, samples_per_unit) ==
    LET x == GenerateX(width, samples_per_unit)
    IN  IF x.err # "none" THEN x
        ELSE [err |-> "none", val |-> [k \in 1 .. Len(x.val) |-> CubicBSplineAt(x.val[k])]]

\* Lifts _create_2d_separable_func over a 1D generator that may have raised.
Expand(r) == IF r.err # "none" THEN r ELSE [err |-> "none", val |-> Create2dSeparableFunc(r.val)]

\* generate_sinc_2d(width, samples_per_unit)
GenerateSinc2d(width, samples_per_unit) ==
    LET x == GenerateX(width, samples_per_unit)
    IN  IF x.err # "none" THEN x
        ELSE Expand([err |-> "none", val |-> [k \in 1 .. Len(x.val) |-> NpSinc(x.val[k])]])

\* generate_lanczos_2d(width, samples_per_unit, a)
GenerateLanczos2d(width, samples_per_unit, a) ==
    Expand(GenerateLanczos1d(width, samples_per_unit, a))

\* generate_bicubic_2d(width, samples_per_unit, a)
GenerateBicubic2d(width, samples_per_unit, a) ==
    Expand(GenerateBicubic1d(width, samples_per_unit, a))

\* generate_cubicbspline_2d(width, samples_per_unit)
GenerateCubicBSpline2d(width, samples_per_unit) ==
    Expand(GenerateCubicBSpline1d(width, samples_per_unit))

\* One entry of generate_gaussian_2d.
GaussianAt(xa, xb, factor, sigma_squared) ==
    Mul(factor,
        NpExp(Div(Neg(Add(Mul(xa, xa), Mul(xb, xb))), Mul(Q(2), sigma_squared))))

\* generate_gaussian_2d(width, samples_per_unit, sigma): the Python float division
\* 1 / (2 * np.pi * sigma_squared) raises ZeroDivisionError when sigma is 0.
GenerateGaussian2d(width, samples_per_unit, sigma) ==
    LET x == GenerateX(width, samples_per_unit)
        sigma_squared == Mul(sigma, sigma)
        denom == Mul(Mul(Q(2), PiQ), sigma_squared)
        factor == Div(One, denom)
    IN  IF x.err # "none" THEN x
        ELSE IF denom = Zero THEN [err |-> "ZeroDivisionError", val |-> <<>>]
        ELSE [err |-> "none",
              val |-> [p_x \in 1 .. Len(x.val) |->
                          [p_y \in 1 .. Len(x.val) |->
                              GaussianAt(x.val[p_x], x.val[p_y], factor, sigma_squared)]]]

\* ------------------------------------------------------ normalize_filter
\* range(n) as a sequence; empty when n <= 0.
RangeSeq(n) == [k \in 1 .. n |-> k - 1]

\* Mutant of SliceIndices: the slice [i:] without its step.
SliceIndicesContiguous(i, oversampling, n) ==
    [k \in 1 .. (IF i >= n THEN 0 ELSE n - i) |-> i + k - 1]

\* The Python row indices selected by the slice [i::oversampling] of n rows.
SliceIndices(i, oversampling, n) ==
    LET count == IF i >= n THEN 0 ELSE (n - i + oversampling - 1) \div oversampling
    IN  [k \in 1 .. count |-> i + (k - 1) * oversampling]

\* The view filter_data[i::oversampling] of the 2D array m.
SliceRows(m, i, oversampling) ==
    LET idx == SliceIndices(i, oversampling, Len(m))
    IN  [k \in 1 .. Len(idx) |-> m[idx[k] + 1]]

\* Mutant of PhaseDivisor: the factor oversampling is forgotten.
PhaseDivisorNoScale(m, i, oversampling) == SumRows(SliceRows(m, i, oversampling))

\* The divisor of one iteration: np.sum(filter_data[i::oversampling]) * oversampling.
PhaseDivisor(m, i, oversampling) == Mul(SumRows(SliceRows(m, i, oversampling)), Q(oversampling))

\* Mutant of NormalizePhase: the name is rebound to the divided slice
\* (filter_data = filter_data[i::oversampling] / divisor) instead of dividing in place.
NormalizePhaseRebind(m, i, oversampling) ==
    LET rows == SliceRows(m, i, oversampling)
        d == PhaseDivisor(m, i, oversampling)
    IN  [r \in 1 .. Len(rows) |-> [c \in 1 .. Len(rows[r]) |-> Div(rows[r][c], d)]]

\* One iteration of the loop: filter_data[i::oversampling] /= divisor, in place.
NormalizePhase(m, i, oversampling) ==
    LET idx == SliceIndices(i, oversampling, Len(m))
        rows == {idx[k] : k \in 1 .. Len(idx)}
        d == PhaseDivisor(m, i, oversampling)
    IN  [r \in 1 .. Len(m) |->
            IF (r - 1) \in rows THEN [c \in 1 .. Len(m[r]) |-> Div(m[r][c], d)]
            ELSE m[r]]

\* The loop of normalize_filter over the phase indices in the sequence order.
RECURSIVE NormalizeLoop(_, _, _)
NormalizeLoop(m, order, oversampling) ==
    IF Len(order) = 0 THEN m
    ELSE NormalizeLoop(NormalizePhase(m, Head(order), oversampling), Tail(order), oversampling)

\* normalize_filter(filter_data, oversampling) on the heap h: the array named by
\* filter_data is rewritten in place and the same reference is returned.
NormalizeFilter(h, filter_data, oversampling) ==
    [heap |-> [h EXCEPT ![filter_data] =
                  NormalizeLoop(h[filter_data], RangeSeq(oversampling), oversampling)],
     ret |-> filter_data]

\* ------------------------------------------------------------------ state
VARIABLES
    pc,              \* "start", "parsed", "done" (returned) or "failed" (raised)
    op,              \* the operation that ran last
    command_args,    \* the parsed command line
    heap,            \* the arrays, by reference
    inp,             \* the arguments of the direct call that ran last
    ret,             \* the reference returned, 0 for none
    error,           \* the exception raised, "none" for none
    normalize_calls, \* the calls of normalize_filter made by generate, in order
    built            \* the 2D kernel as the family's 2D generator returned it

vars == <<pc, op, command_args, heap, inp, ret, error, normalize_calls, built>>

Families == {"sinc", "lanczos", "bicubic", "cubicbspline", "gaussian"}

ArgInts(max) == (0 - MaxNeg) .. max

\* The bicubic a and Gaussian sigma values given on the command line.
BicubicAs == {<<0 - 1, 2>>, Q(0 - 1), Q(4)}

Sigmas == {Q(0 - 1), Zero, One, Q(2)}

NoArgs ==
    [filter |-> "none", width |-> 0, samples_per_unit |-> 0, normalize |-> FALSE,
     kernel_size |-> 0, a |-> Zero, sigma |-> Zero]

NoInp ==
    [ref |-> 0, before |-> <<>>, oversampling |-> 0, width |-> 0,
     samples_per_unit |-> 0, kernel_size |-> 0, a |-> Zero]

NoBuilt == [ref |-> 0, val |-> <<>>]

Init ==
    /\ pc = "start"
    /\ op = "none"
    /\ command_args = NoArgs
    /\ heap = <<>>
    /\ inp = NoInp
    /\ ret = 0
    /\ error = "none"
    /\ normalize_calls = <<>>
    /\ built = NoBuilt

\* ------------------------------------------------------------ cli.py
\* Parser.parse: width and samples_per_unit are ints, normalize a flag, and the
\* chosen sub-command adds its own argument.
Parse(f, w, s, n, k, a, sg) ==
    /\ pc = "start"
    /\ pc' = "parsed"
    /\ op' = "parse"
    /\ command_args' =
          [filter |-> f, width |-> w, samples_per_unit |-> s, normalize |-> n,
           kernel_size |-> k, a |-> a, sigma |-> sg]
    /\ UNCHANGED <<heap, inp, ret, error, normalize_calls, built>>

\* Mutant of ReturnKernel: the normalize flag is not consulted.
ReturnKernelAlways(h, k, args) ==
    LET r == NormalizeFilter(h, k, args.samples_per_unit)
    IN  [heap |-> r.heap, ret |-> r.ret,
         calls |-> <<[ref |-> k, oversampling |-> args.samples_per_unit]>>]

\* The tail shared by the five generate methods: with the kernel at reference k,
\*   if command_args.normalize: return normalize_filter(k, samples_per_unit)
\*   else: return k
ReturnKernel(h, k, args) ==
    IF args.normalize
    THEN LET r == NormalizeFilter(h, k, args.samples_per_unit)
         IN  [heap |-> r.heap, ret |-> r.ret,
              calls |-> <<[ref |-> k, oversampling |-> args.samples_per_unit]>>]
    ELSE [heap |-> h, ret |-> k, calls |-> <<>>]

\* A generate method, given what the family's 2D generator returned or raised.
Generate(g) ==
    /\ pc = "parsed"
    /\ op' = "generate"
    /\ UNCHANGED <<command_args, inp>>
    /\ IF g.err # "none"
       THEN /\ pc' = "failed"
            /\ error' = g.err
            /\ UNCHANGED <<heap, ret, normalize_calls, built>>
       ELSE LET h == Append(heap, g.val)
                k == Len(h)
                r == ReturnKernel(h, k, command_args)
            IN  /\ pc' = "done"
                /\ error' = "none"
                /\ built' = [ref |-> k, val |-> g.val]
                /\ heap' = r.heap
                /\ ret' = r.ret
                /\ normalize_calls' = r.calls

\* SincFilterGenerator.generate
SincGenerate ==
    /\ command_args.filter = "sinc"
    /\ Generate(GenerateSinc2d(command_args.width, command_args.samples_per_unit))

\* LanczosFilterGenerator.generate
LanczosGenerate ==
    /\ command_args.filter = "lanczos"
    /\ Generate(GenerateLanczos2d(command_args.width, command_args.samples_per_unit,
                                  command_args.kernel_size))

\* BicubicFilterGenerator.generate
BicubicGenerate ==
    /\ command_args.filter = "bicubic"
    /\ Generate(GenerateBicubic2d(command_args.width, command_args.samples_per_unit,
                                  command_args.a))

\* CubicBSplineFilterGenerator.generate
CubicBSplineGenerate ==
    /\ command_args.filter = "cubicbspline"
    /\ Generate(GenerateCubicBSpline2d(command_args.width, command_args.samples_per_unit))

\* GaussianFilterGenerator.generate
GaussianGenerate ==
    /\ command_args.filter = "gaussian"
    /\ Generate(GenerateGaussian2d(command_args.width, command_args.samples_per_unit,
                                   command_args.sigma))

\* ------------------------------------------- direct calls of generators.py
\* A direct call of a 1D function: its result is allocated, or its error raised.
Call1d(name, r, w, s, k, a) ==
    /\ pc = "start"
    /\ op' = name
    /\ inp' = [NoInp EXCEPT !.width = w, !.samples_per_unit = s, !.kernel_size = k, !.a = a]
    /\ UNCHANGED <<command_args, normalize_calls, built>>
    /\ IF r.err # "none"
       THEN /\ pc' = "failed"
            /\ error' = r.err
            /\ UNCHANGED <<heap, ret>>
       ELSE /\ pc' = "done"
            /\ error' = "none"
            /\ heap' = Append(heap, r.val)
            /\ ret' = Len(heap) + 1

CallGenerateX(w, s) == Call1d("_generate_x", GenerateX(w, s), w, s, 0, Zero)

CallLanczos1d(w, s, k) ==
    Call1d("generate_lanczos_1d", GenerateLanczos1d(w, s, k), w, s, k, Zero)

CallBicubic1d(w, s, a) ==
    Call1d("generate_bicubic_1d", GenerateBicubic1d(w, s, a), w, s, 0, a)

CallCubicBSpline1d(w, s) ==
    Call1d("generate_cubicbspline_1d", GenerateCubicBSpline1d(w, s), w, s, 0, Zero)

\* The 1D profiles handed directly to _create_2d_separable_func.
Profiles ==
    UNION {[1 .. n -> {Q(v) : v \in (0 - MaxVal) .. MaxVal}] : n \in 0 .. MaxLen}

\* _create_2d_separable_func(func_1d) on a profile the caller allocated.
CallCreate2d(func_1d) ==
    /\ pc = "start"
    /\ pc' = "done"
    /\ op' = "_create_2d_separable_func"
    /\ heap' = Append(Append(heap, func_1d), Create2dSeparableFunc(func_1d))
    /\ inp' = [NoInp EXCEPT !.ref = Len(heap) + 1, !.before = func_1d]
    /\ ret' = Len(heap) + 2
    /\ error' = "none"
    /\ UNCHANGED <<command_args, normalize_calls, built>>

\* normalize_filter(filter_data, oversampling) on the kernel just built.
CallNormalize(oversampling) ==
    /\ pc = "done"
    /\ op = "_create_2d_separable_func"
    /\ LET r == NormalizeFilter(heap, ret, oversampling)
       IN  /\ heap' = r.heap
           /\ ret' = r.ret
    /\ op' = "normalize_filter"
    /\ inp' = [NoInp EXCEPT !.ref = ret, !.before = heap[ret], !.oversampling = oversampling]
    /\ UNCHANGED <<pc, command_args, error, normalize_calls, built>>

Next ==
    \/ \E w \in ArgInts(MaxWidth), s \in ArgInts(MaxSpu), n \in BOOLEAN :
          \/ Parse("sinc", w, s, n, 0, Zero, Zero)
          \/ \E k \in ArgInts(MaxKernelSize) : Parse("lanczos", w, s, n, k, Zero, Zero)
          \/ \E a \in BicubicAs : Parse("bicubic", w, s, n, 0, a, Zero)
          \/ Parse("cubicbspline", w, s, n, 0, Zero, Zero)
          \/ \E sg \in Sigmas : Parse("gaussian", w, s, n, 0, Zero, sg)
    \/ SincGenerate
    \/ LanczosGenerate
    \/ BicubicGenerate
    \/ CubicBSplineGenerate
    \/ GaussianGenerate
    \/ \E w \in ArgInts(MaxWidth), s \in ArgInts(MaxSpu) : CallGenerateX(w, s)
    \/ \E w \in ArgInts(MaxWidth), s \in ArgInts(MaxSpu), k \in ArgInts(MaxKernelSize) :
          CallLanczos1d(w, s, k)
    \/ \E w \in ArgInts(MaxWidth), s \in ArgInts(MaxSpu), a \in BicubicAs :
          CallBicubic1d(w, s, a)
    \/ \E w \in ArgInts(MaxWidth), s \in ArgInts(MaxSpu) : CallCubicBSpline1d(w, s)
    \/ \E func_1d \in Profiles : CallCreate2d(func_1d)
    \/ \E oversampling \in 1 .. MaxPhases : CallNormalize(oversampling)

Spec == Init /\ [][Next]_vars

\* ================================================================ claims
\* Helpers of the claims, written from the claims' words and not from the code.

\* The coordinate of Python index j on the grid of width w and density s > 0.
Coord(w, s, j) == Norm(2 * j - w * s, 2 * s)

\* The sum of all entries of the rows r >= from with r % p = i (Python indices).
RECURSIVE PhaseSumFrom(_, _, _, _)
PhaseSumFrom(m, i, p, from) ==
    IF from >= Len(m) THEN Zero
    ELSE Add(IF from % p = i THEN SumSeq(m[from + 1]) ELSE Zero,
             PhaseSumFrom(m, i, p, from + 1))

PhaseSum(m, i, p) == PhaseSumFrom(m, i, p, 0)

IsSquare(m, n) == Len(m) = n /\ \A r \in 1 .. Len(m) : Len(m[r]) = n

HasNaNOrInf(m) == \E r \in 1 .. Len(m) : \E c \in 1 .. Len(m[r]) : ~IsFinite(m[r][c])

\* A state in which normalize_filter has just returned, called directly.
Normalized == op = "normalize_filter"

\* C1: after normalize_filter(kernel, p) with p > 0 on an N x N kernel whose phases
\* all have a non-zero sum, the rows i, i+p, i+2p, ... of the returned kernel sum
\* to 1/p, for every phase i in [0, p).
C1_PhaseSumsToOneOverP ==
    /\ (Normalized /\ \A i \in Idx(inp.oversampling) :
                          PhaseSum(inp.before, i, inp.oversampling) # Zero)
       => \A i \in Idx(inp.oversampling) :
              PhaseSum(heap[ret], i, inp.oversampling) = <<1, inp.oversampling>>
    \* ... and likewise when generate normalizes the kernel it built
    /\ (op = "generate" /\ pc = "done" /\ command_args.normalize
            /\ command_args.samples_per_unit > 0 /\ ~HasNaNOrInf(built.val)
            /\ \A i \in Idx(command_args.samples_per_unit) :
                   PhaseSum(built.val, i, command_args.samples_per_unit) # Zero)
       => \A i \in Idx(command_args.samples_per_unit) :
              PhaseSum(heap[ret], i, command_args.samples_per_unit)
                  = <<1, command_args.samples_per_unit>>

C1_Witness ==
    /\ Normalized
    /\ inp.oversampling = 2
    /\ Len(inp.before) = 3
    /\ \A i \in Idx(2) : PhaseSum(inp.before, i, 2) # Zero
    /\ heap[ret] # inp.before
    /\ PhaseSum(heap[ret], 0, 2) = <<1, 2>>

\* C2: when some phase of the kernel handed to normalize_filter has rows that sum
\* to exactly zero, the call ends in a reported failure and returns no kernel holding nan or
\* inf entries.
C2_ZeroPhaseIsReported ==
    (Normalized /\ \E i \in Idx(inp.oversampling) :
                       /\ i < Len(inp.before)
                       /\ PhaseSum(inp.before, i, inp.oversampling) = Zero)
    => /\ pc = "failed"
       /\ error \in {"InvalidArgument", "DivisionByZero"}
       /\ ~HasNaNOrInf(heap[inp.ref])

\* C3: for width > 0 and samples_per_unit > 0, _generate_x returns N =
\* width * samples_per_unit + 1 coordinates from -width/2 to +width/2, spaced
\* 1/samples_per_unit apart, symmetric about 0, and holding 0 exactly when N is odd.
C3_Grid ==
    (op = "_generate_x" /\ inp.width > 0 /\ inp.samples_per_unit > 0)
    => /\ pc = "done"
       /\ LET n == inp.width * inp.samples_per_unit + 1
              coords == heap[ret]
          IN  /\ Len(coords) = n
              /\ coords[1] = Norm(0 - inp.width, 2)
              /\ coords[n] = Norm(inp.width, 2)
              /\ \A k \in 1 .. (n - 1) :
                    Sub(coords[k + 1], coords[k]) = Norm(1, inp.samples_per_unit)
              /\ \A k \in 1 .. n : coords[k] = Neg(coords[n + 1 - k])
              /\ (\E k \in 1 .. n : coords[k] = Zero) <=> (n % 2 = 1)

C3_Witness ==
    /\ op = "_generate_x"
    /\ pc = "done"
    /\ inp.width = 3
    /\ inp.samples_per_unit = 2
    /\ heap[ret][4] = Zero
    /\ heap[ret][2] = Q(0 - 1)

\* The arguments the specification calls invalid.
InvalidArgs(args) ==
    \/ args.width <= 0
    \/ args.samples_per_unit <= 0
    \/ args.filter = "lanczos" /\ args.kernel_size <= 0
    \/ args.filter = "gaussian" /\ ~Less(Zero, args.sigma)

\* C4: a kernel generation call with an invalid argument (width <= 0,
\* samples_per_unit <= 0, Lanczos a not a positive integer, Gaussian sigma not
\* strictly positive) fails and returns no kernel.
C4_InvalidArgumentFails ==
    (op = "generate" /\ InvalidArgs(command_args)) => (pc = "failed" /\ ret = 0)

\* C5: _create_2d_separable_func returns an N x N matrix with result[i][j] =
\* profile[i] * profile[j]; it is symmetric, its diagonal holds the squares, and
\* the profile handed in is left unchanged.
C5_OuterProduct ==
    (op = "_create_2d_separable_func")
    => LET profile == heap[inp.ref]
           result == heap[ret]
           n == Len(inp.before)
       IN  /\ profile = inp.before
           /\ ret # inp.ref
           /\ IsSquare(result, n)
           /\ \A i, j \in 1 .. n :
                 /\ result[i][j] = Q(inp.before[i][1] * inp.before[j][1])
                 /\ result[i][j] = result[j][i]
           /\ \A i \in 1 .. n : result[i][i] = Q(inp.before[i][1] * inp.before[i][1])

C5_Witness ==
    /\ op = "_create_2d_separable_func"
    /\ Len(inp.before) = 3
    /\ inp.before[1] = Q(1)
    /\ inp.before[2] = Q(0 - 1)
    /\ heap[ret][1][2] = Q(0 - 1)
    /\ heap[ret][2][2] = Q(1)

\* The family parameter is in its documented domain.
FamilyParamValid(args) ==
    /\ args.filter = "lanczos" => args.kernel_size >= 1
    /\ args.filter = "gaussian" => Less(Zero, args.sigma)

\* C6: for each family and all width > 0, samples_per_unit > 0, generate returns
\* a square N x N kernel, N = width * samples_per_unit + 1, normalized or not;
\* the kernel has that shape before normalization and keeps it.
C6_Shape ==
    (op = "generate" /\ command_args.width > 0 /\ command_args.samples_per_unit > 0)
    => LET n == command_args.width * command_args.samples_per_unit + 1
       IN  /\ FamilyParamValid(command_args) => pc = "done"
           /\ pc = "done" => (IsSquare(built.val, n) /\ IsSquare(heap[ret], n))

C6_Witness ==
    /\ op = "generate"
    /\ pc = "done"
    /\ command_args.filter = "gaussian"
    /\ command_args.normalize
    /\ command_args.width = 2
    /\ command_args.samples_per_unit = 2
    /\ IsSquare(heap[ret], 5)
    /\ heap[ret] # built.val

C8_LanczosSupport ==
    (op = "generate_lanczos_1d" /\ pc = "done" /\ inp.kernel_size >= 1
        /\ inp.width > 0 /\ inp.samples_per_unit > 0)
    => \A k \in 1 .. Len(heap[ret]) :
          LET xk == Coord(inp.width, inp.samples_per_unit, k - 1)
              a == Q(inp.kernel_size)
          IN  /\ LessEq(a, AbsQ(xk)) =>
                    (heap[ret][k] = Zero /\ RectLanczos(xk, inp.kernel_size) = Zero)
              /\ (Less(Neg(a), xk) /\ Less(xk, a))
                    => heap[ret][k] = Mul(NpSinc(xk), NpSinc(Div(xk, a)))

C8_Witness ==
    /\ op = "generate_lanczos_1d"
    /\ pc = "done"
    /\ inp.kernel_size = 1
    /\ inp.width = 3
    /\ inp.samples_per_unit = 2
    /\ heap[ret][1] = Zero
    /\ heap[ret][2] = Zero
    /\ heap[ret][3] # Zero
    /\ heap[ret][4] = One

\* C9: generate applies normalize_filter exactly once, to the kernel the family's
\* 2D generator built and with oversampling = samples_per_unit, exactly when the
\* normalize flag is set; without the flag it returns that kernel unmodified.
C9_NormalizeIffFlag ==
    (op = "generate")
    => /\ pc = "failed" => normalize_calls = <<>>
       /\ pc = "done" =>
             /\ ret = built.ref
             /\ IF command_args.normalize
                THEN normalize_calls =
                        <<[ref |-> built.ref,
                           oversampling |-> command_args.samples_per_unit]>>
                ELSE normalize_calls = <<>> /\ heap[ret] = built.val

C9_Witness ==
    /\ op = "generate"
    /\ pc = "done"
    /\ command_args.normalize
    /\ command_args.filter = "lanczos"
    /\ command_args.samples_per_unit = 2
    /\ command_args.width = 2
    /\ Len(normalize_calls) = 1
    /\ heap[ret] # built.val

\* The orders in which the phases 0 .. p-1 can be processed.
PhaseOrders(p) == {[k \in 1 .. p |-> f[k] - 1] : f \in Permutations(1 .. p)}

\* C10: in normalize_filter the row sets {i, i+p, ...}, i in [0, p), partition the
\* rows; every entry is divided once, by the sum of its own phase's original
\* entries times p; the sum read at iteration i is the original one; the result
\* is the same for every processing order; and the array returned is the array
\* passed in, rewritten in place.
C10_PhasesIndependent ==
    Normalized
    => LET before == inp.before
           p == inp.oversampling
           n == Len(before)
           after == heap[ret]
       IN  /\ \A r \in Idx(n) :
                 Cardinality({i \in Idx(p) :
                     \E k \in 1 .. Len(SliceIndices(i, p, n)) :
                         SliceIndices(i, p, n)[k] = r}) = 1
           /\ IsSquare(after, n)
           /\ \A r \in Idx(n) : \A c \in 1 .. n :
                 after[r + 1][c] =
                     Div(before[r + 1][c], Mul(PhaseSum(before, r % p, p), Q(p)))
           /\ \A i \in Idx(p) :
                 PhaseDivisor(NormalizeLoop(before, RangeSeq(i), p), i, p)
                     = Mul(PhaseSum(before, i, p), Q(p))
           /\ \A order \in PhaseOrders(p) : NormalizeLoop(before, order, p) = after
           /\ ret = inp.ref
           /\ Len(heap) = 2

C10_Witness ==
    /\ Normalized
    /\ inp.oversampling = 2
    /\ Len(inp.before) = 3
    /\ ret = inp.ref
    /\ heap[ret][1] # inp.before[1]
    /\ heap[ret][2] # inp.before[2]
    /\ ~HasNaNOrInf(heap[ret])

====
